---- MODULE Spec2Model ----
(***************************************************************************)
(* A state-machine model of amqp-ts (src/src/amqp-ts.ts): the Connection   *)
(* supervisor, the Exchange / Queue / Binding entities, the consumer of a  *)
(* Queue, rpc and the publish path, on a single-threaded event loop.       *)
(*                                                                         *)
(* Every action is one run-to-completion step of the event loop: a call   *)
(* made by the application, a callback of the AMQP library, a timer, or   *)
(* one promise reaction (a `.then` callback).  Promise reactions are kept *)
(* in `waits` while their promise is pending and move to the FIFO `jobs`  *)
(* when it is fulfilled; library callbacks and timers run only when no    *)
(* reaction is queued.  A reaction on a rejected promise is dropped: no   *)
(* `.then` of the source passes a rejection handler that reaches the      *)
(* entities.                                                               *)
(*                                                                         *)
(* The broker and the AMQP library are the environment: a connect is      *)
(* accepted or refused; a link fails with an "error" event, or is closed  *)
(* without one; the broker closes a channel of a link that stays up; an   *)
(* operation pending on a live channel is acknowledged or refused, an     *)
(* operation pending on a dead channel is answered with an error, and an  *)
(* operation started on a dead channel throws.                            *)
(***************************************************************************)
EXTENDS Integers, Sequences, FiniteSets, TLC

\* ---------------------------------------------------------------- bounds
MaxRetries  == 2   \* reconnectStrategy.retries ranges over 0..MaxRetries
MaxRefusedConnects == 1  \* connects refused beyond those the retry budget absorbs
MaxDrops    == 1   \* links that may drop
MaxRefusals == 1   \* operations the broker may refuse on a live channel
MaxMsgs     == 2   \* publish / send calls of the application
MaxObjs     == 2   \* Exchange and Queue objects constructed
MaxBinds    == 1   \* Binding objects constructed
MaxLinkErrors == 2 \* links that may fail one after the other under a topology
MaxCloses   == 1   \* channels the broker may close on a link that stays up
MaxRetransmitCloses == 2  \* channels closed while one message is published
MaxRemovals == 1   \* delete / close calls of the application
MaxLifecycleObjs == 3  \* objects constructed where entities are deleted and closed
MaxConsumerCalls == 4  \* startConsumer / activateConsumer / stopConsumer calls
MaxDeliveries == 2 \* deliveries the broker makes to the consumers of a queue
MaxRpcs     == 1   \* rpc calls of the application
MaxReplies  == 2   \* replies the broker delivers to the subscriptions of rpc calls
MaxUnbinds  == 2   \* unbind calls of the application
MaxTeardowns == 1  \* deleteConfiguration calls of the application
MaxChars    == 1   \* characters of a string content
MaxContentCalls == 2  \* publish / send calls whose content is followed

ExchangeNames == {"e"}
QueueNames    == {"q"}
\* Binding.id(destination, source, pattern): source name, kind and name of the
\* destination, pattern
BindingIds    == {<<"e", "Queue", "q", "">>}

VARIABLES
  retries,        \* Connection.reconnectStrategy.retries
  _rebuilding,    \* Connection._rebuilding
  initialized,    \* Connection.initialized: the id of a promise
  _connection,    \* Connection._connection: the id of a link, 0 while undefined
  _exchanges,     \* Connection._exchanges: name -> entity id, 0 when absent
  _queues,        \* Connection._queues:    name -> entity id, 0 when absent
  _bindings,      \* Connection._bindings:  binding id -> binding object, 0 when absent
  promises,       \* every promise created: [k, st, n, on]
  entities,       \* every Exchange / Queue object constructed
  bindingObjs,    \* every Binding object constructed: [source, destination, init]
  channels,       \* every channel created: [link, open, by]
  linkUp,         \* the links that are up
  listening,      \* the links whose "error" listener (restart) is installed
  waits,          \* reactions of pending promises, in registration order
  jobs,           \* reactions ready to run, FIFO
  tasks,          \* operations handed to the AMQP library, callback outstanding
  consumers,      \* the broker's subscriptions: [queue, obj, ch, tag, fn]
  rpcs,           \* the rpc calls made: [obj, p, tag]
  deliveries,     \* the deliveries the consumer functions received
  acks,           \* the ack / nack / reject calls made on channels
  sent,           \* what the channels were handed by publish / sendToQueue, in order
  msgs,           \* the publish / send calls made by the application
  limits,         \* what the environment and the application may do in this run
  hist            \* history counters, read only by guards and properties

vars == <<retries, _rebuilding, initialized, _connection, _exchanges, _queues,
          _bindings, promises, entities, bindingObjs, channels, linkUp, listening,
          waits, jobs, tasks, consumers, rpcs, deliveries, acks, sent, msgs, limits,
          hist>>

\* The program state as one record, so that a method that calls other
\* methods is the composition of their effects.
State ==
  [retries |-> retries, rebuilding |-> _rebuilding, initialized |-> initialized,
   connection |-> _connection, exchanges |-> _exchanges, queues |-> _queues,
   bindings |-> _bindings, promises |-> promises, entities |-> entities,
   bindingObjs |-> bindingObjs, channels |-> channels,
   linkUp |-> linkUp, listening |-> listening, waits |-> waits, jobs |-> jobs,
   tasks |-> tasks, consumers |-> consumers, rpcs |-> rpcs,
   deliveries |-> deliveries, acks |-> acks, sent |-> sent, msgs |-> msgs,
   limits |-> limits, hist |-> hist]

\* The operations outstanding on channels, in the order they were issued:
\* kept in runs where the library answers a channel's operations in order.
RECURSIVE InSomeOrder(_)
InSomeOrder(S) ==
  IF S = {} THEN <<>>
  ELSE LET x == CHOOSE y \in S : TRUE IN <<x>> \o InSomeOrder(S \ {x})

Issued(s) ==
  IF s.limits.serial
  THEN SelectSeq(s.hist.order, LAMBDA t : t \in s.tasks)
       \o InSomeOrder({t \in s.tasks \ tasks :
                         t.t \notin {"connect", "timer", "createChannel"}})
  ELSE s.hist.order

Becomes(s) ==
  /\ retries' = s.retries
  /\ _rebuilding' = s.rebuilding
  /\ initialized' = s.initialized
  /\ _connection' = s.connection
  /\ _exchanges' = s.exchanges
  /\ _queues' = s.queues
  /\ _bindings' = s.bindings
  /\ bindingObjs' = s.bindingObjs
  /\ consumers' = s.consumers
  /\ rpcs' = s.rpcs
  /\ deliveries' = s.deliveries
  /\ acks' = s.acks
  /\ limits' = s.limits
  /\ promises' = s.promises
  /\ entities' = s.entities
  /\ channels' = s.channels
  /\ linkUp' = s.linkUp
  /\ listening' = s.listening
  /\ waits' = s.waits
  /\ jobs' = s.jobs
  /\ tasks' = s.tasks
  /\ sent' = s.sent
  /\ msgs' = s.msgs
  /\ hist' = [s.hist EXCEPT !.order = Issued(s)]

\* ------------------------------------------------------------- promises
\* An operation handed to the library: its kind, the object, the promise its
\* callback settles, the channel (for a connect: unused), the consumer tag
\* of a cancel
\* and the consumer function of a consume.
TaskWith(t, a, b, c, d, fn) == [t |-> t, a |-> a, b |-> b, c |-> c, d |-> d, fn |-> fn]
Task(t, a, b, c) == TaskWith(t, a, b, c, 0, "none")
Job(t, a, b) == [t |-> t, a |-> a, b |-> b]

\* A promise: its kind, its state, the object it belongs to (for the promise
\* of a connect chain: the attempts made) and the promise its executor waits on.
NewPromise(s, k, n, on) ==
  [s EXCEPT !.promises = Append(@, [k |-> k, st |-> "pending", n |-> n, on |-> on])]

IsPending(s, p)   == p # 0 /\ s.promises[p].st = "pending"
IsFulfilled(s, p) == p # 0 /\ s.promises[p].st = "fulfilled"
IsRejected(s, p)  == p # 0 /\ s.promises[p].st = "rejected"

\* promise.then(k) and Promise.all(on).then(k): k runs, as a job, once every
\* promise of `on` is fulfilled, and never when one of them is rejected.
Then(s, on, k) ==
  LET pend == {p \in on : IsPending(s, p)} IN
  IF \E p \in on : IsRejected(s, p) THEN s
  ELSE IF pend = {} THEN [s EXCEPT !.jobs = Append(@, k)]
  ELSE [s EXCEPT !.waits = Append(@, [on |-> pend, k |-> k])]

\* resolve(v) of a pending promise: its reactions are queued in the order
\* of their registration.
Fulfil(s, p) ==
  IF ~IsPending(s, p) THEN s
  ELSE LET ws    == [i \in 1..Len(s.waits) |-> [s.waits[i] EXCEPT !.on = @ \ {p}]]
           ready == SelectSeq(ws, LAMBDA w : w.on = {})
       IN [s EXCEPT !.promises[p].st = "fulfilled",
                    !.waits = SelectSeq(ws, LAMBDA w : w.on # {}),
                    !.jobs = @ \o [i \in 1..Len(ready) |-> ready[i].k]]

\* reject(err) of a pending promise: the reactions waiting on it never run,
\* and a Promise.all that joined it is rejected.
Reject(s, p) ==
  IF ~IsPending(s, p) THEN s
  ELSE LET joins == {s.waits[i].k.b : i \in {j \in 1..Len(s.waits) :
                        p \in s.waits[j].on /\ s.waits[j].k.t = "all"}}
       IN [s EXCEPT !.promises = [q \in DOMAIN @ |->
                                    IF q = p \/ q \in joins
                                    THEN [@[q] EXCEPT !.st = "rejected"] ELSE @[q]],
                    !.waits = SelectSeq(@, LAMBDA w : p \notin w.on)]

\* Promise.all(ps), as a promise of kind k: fulfilled by a reaction once
\* every promise of ps is, rejected when one of them is.
All(s, ps, k) ==
  LET s1 == NewPromise(s, k, 0, 0)
      ap == Len(s1.promises)
  IN IF \E p \in ps : IsRejected(s, p)
     THEN [s1 EXCEPT !.promises[ap].st = "rejected"]
     ELSE Then(s1, ps, Job("all", 0, ap))

\* Objects are visited in the order of their construction.
Least(S) == CHOOSE x \in S : \A y \in S : x <= y

\* A channel works while it is open and its link is up.
ChannelAlive(s, c) ==
  c # 0 /\ s.channels[c].open /\ s.channels[c].link \in s.linkUp

\* ----------------------------------------------------------- Connection
\* AmqpLib.connect(url, socketOptions, cb) of tryToConnect: one more attempt
\* of the chain that settles promise p.
TryToConnect(s, p, retry) ==
  [s EXCEPT !.tasks = @ \cup {Task("connect", p, retry, 0)},
            !.promises[p].n = @ + 1]

\* rebuildConnection without the test of _rebuilding: a variant C1 excludes
RebuildConnectionUnguarded(s) ==
  LET s1 == NewPromise([s EXCEPT !.rebuilding = TRUE], "conn", 0, 0)
      p  == Len(s1.promises)
  IN TryToConnect([s1 EXCEPT !.initialized = p], p, 0)

RebuildConnection(s) ==
  IF s.rebuilding THEN s
  ELSE LET s1 == NewPromise([s EXCEPT !.rebuilding = TRUE], "conn", 0, 0)
           p  == Len(s1.promises)
       IN TryToConnect([s1 EXCEPT !.initialized = p], p, 0)

\* a callback that clears _rebuilding only on success: a variant C24 excludes
ConnectSettledKeeping(s, p, ok) ==
  IF ok THEN Fulfil([s EXCEPT !.rebuilding = FALSE], p) ELSE Reject(s, p)

\* The callback rebuildConnection hands to tryToConnect.
ConnectSettled(s, p, ok) ==
  LET s1 == [s EXCEPT !.rebuilding = FALSE]
  IN IF ok THEN Fulfil(s1, p) ELSE Reject(s1, p)

\* ------------------------------------------------------ Exchange, Queue
NameOf(kind) == IF kind = "exchange" THEN "e" ELSE "q"

NewEntity(s, kind, name) ==
  [s EXCEPT !.entities = Append(@, [kind |-> kind, name |-> name, init |-> 0,
                                    ch |-> 0, conn |-> TRUE, consumer |-> 0,
                                    copts |-> "undefined", isStart |-> FALSE,
                                    raw |-> FALSE,
                                    cinit |-> 0, ctag |-> 0, gone |-> "no"])]

Register(s, o) ==
  IF s.entities[o].kind = "exchange"
  THEN [s EXCEPT !.exchanges[s.entities[o].name] = o]
  ELSE [s EXCEPT !.queues[s.entities[o].name] = o]

\* delete this._connection._exchanges[this._name] (resp. _queues): the entry
\* of this name goes, whichever object it holds.  `gone` records, for the
\* properties, which operation took an object out of the registry.
Unregister(s, o, why) ==
  LET name == s.entities[o].name
      cur  == IF s.entities[o].kind = "exchange" THEN s.exchanges[name] ELSE s.queues[name]
      s1   == IF cur = 0 THEN s ELSE [s EXCEPT !.entities[cur].gone = why]
  IN IF s.entities[o].kind = "exchange"
     THEN [s1 EXCEPT !.exchanges[name] = 0]
     ELSE [s1 EXCEPT !.queues[name] = 0]

Registered(s, o) ==
  IF s.entities[o].kind = "exchange"
  THEN s.exchanges[s.entities[o].name] = o
  ELSE s.queues[s.entities[o].name] = o

\* Exchange._initialize / Queue._initialize: a new `initialized` promise whose
\* executor waits on the Connection.initialized of this moment.
Initialize(s, o) ==
  LET s1 == NewPromise(s, "init", o, s.initialized)
      ip == Len(s1.promises)
      s2 == Then([s1 EXCEPT !.entities[o].init = ip], {s.initialized},
                 Job("createChannel", o, ip))
  IN IF s.entities[o].kind = "exchange" THEN Register(s2, o) ELSE s2

\* new Exchange(...) / new Queue(...)
Construct(s, kind, name) ==
  LET s1 == NewEntity(s, kind, name)
      o  == Len(s1.entities)
  IN IF kind = "exchange" THEN Initialize(s1, o)
     ELSE Initialize(Register(s1, o), o)

\* a declare that does not look the name up: a variant C5 excludes
DeclareAlwaysNew(s, kind, name) == Construct(s, kind, name)

\* Connection.declareExchange / declareQueue
Declare(s, kind, name) ==
  LET cur == IF kind = "exchange" THEN s.exchanges[name] ELSE s.queues[name]
  IN IF cur = 0 THEN Construct(s, kind, name) ELSE s

Declared(s, kind, name) ==
  IF kind = "exchange" THEN s.exchanges[name] ELSE s.queues[name]

\* Queue._initializeConsumer: a new _consumerInitialized promise whose
\* executor waits on the Queue.initialized of this moment.
InitializeConsumer(s, o) ==
  LET s1 == NewPromise(s, "consumer", o, s.entities[o].init)
      cp == Len(s1.promises)
  IN Then([s1 EXCEPT !.entities[o].cinit = cp], {s.entities[o].init},
          Job("consume", o, cp))

\* A channel call of entity o is made: `ungated` records, for the
\* properties, the calls made while o.initialized is not fulfilled.
Attempt(s, op, o) ==
  IF IsFulfilled(s, s.entities[o].init) THEN s
  ELSE [s EXCEPT !.hist.ungated = @ \cup {<<op, o>>}]

\* new Promise((_, reject) => reject(new Error(msg)))
Rejected(s, k, o, msg) ==
  LET s1 == NewPromise(s, k, o, 0)
      p  == Len(s1.promises)
  IN [Reject(s1, p) EXCEPT !.hist.errors = @ \cup {<<p, msg>>}]

\* `calls` records the startConsumer / activateConsumer / stopConsumer calls;
\* the callback a call registers is named by the index of the call.
Called(s, api, o, ok) ==
  [s EXCEPT !.hist.calls = Append(@, [api |-> api, obj |-> o, accepted |-> ok])]

\* a startConsumer without the test of _consumerInitialized: a variant C13
\* excludes
StartConsumerUnguarded(s, o, raw, noAck) ==
  LET s1 == Called(s, "startConsumer", o, TRUE)
  IN InitializeConsumer([s1 EXCEPT !.entities[o].isStart = TRUE,
                                   !.entities[o].raw = raw,
                                   !.entities[o].copts = IF noAck THEN "noAck" ELSE "ack",
                                   !.entities[o].consumer = Len(s1.hist.calls)], o)

\* Queue.startConsumer(onMessage, options)
StartConsumer(s, o, raw, noAck) ==
  IF s.entities[o].cinit # 0
  THEN Rejected(Called(s, "startConsumer", o, FALSE), "startConsumer", o,
                "consumer already defined")
  ELSE LET s1 == Called(s, "startConsumer", o, TRUE)
       IN InitializeConsumer([s1 EXCEPT !.entities[o].isStart = TRUE,
                                        !.entities[o].raw = raw,
                                        !.entities[o].copts = IF noAck THEN "noAck" ELSE "ack",
                                        !.entities[o].consumer = Len(s1.hist.calls)], o)

\* Queue.activateConsumer(onMessage, options)
ActivateConsumer(s, o, noAck) ==
  IF s.entities[o].cinit # 0
  THEN Rejected(Called(s, "activateConsumer", o, FALSE), "activateConsumer", o,
                "consumer already defined")
  ELSE LET s1 == Called(s, "activateConsumer", o, TRUE)
       IN InitializeConsumer([s1 EXCEPT !.entities[o].copts = IF noAck THEN "noAck" ELSE "ack",
                                        !.entities[o].consumer = Len(s1.hist.calls)], o)

\* The consumer function the reaction of _initializeConsumer hands to
\* channel.consume.
ConsumerFunction(s, o) ==
  IF s.entities[o].isStart
  THEN IF s.entities[o].raw THEN "rawMsgConsumer" ELSE "processedMsgConsumer"
  ELSE "activateConsumerWrapper"

\* this._channel.consume(...) of _initializeConsumer; on a dead channel the
\* call throws inside the reaction and the promise stays pending.
ConsumeJob(s, o, cp) ==
  LET s1 == Attempt(s, "consume", o)
  IN IF ChannelAlive(s, s.entities[o].ch)
     THEN [s1 EXCEPT !.tasks = @ \cup {TaskWith("consume", o, cp, s.entities[o].ch, 0,
                                                ConsumerFunction(s, o))}]
     ELSE s1

\* The callback of consume, err unset: this._consumerTag = ok.consumerTag.
\* The tag of a subscription is the id of the promise of its consume call.
ConsumeAcked(s, t) ==
  Fulfil([s EXCEPT !.tasks = @ \ {t},
                   !.entities[t.a].ctag = t.b,
                   !.consumers = @ \cup {[queue |-> s.entities[t.a].name, obj |-> t.a,
                                          ch |-> t.c, tag |-> t.b, fn |-> t.fn]}], t.b)

ConsumeFailed(s, t) == Reject([s EXCEPT !.tasks = @ \ {t}], t.b)

\* a stopConsumer is called on an Active queue: its consumer is subscribed
\* and no stopConsumer is in progress
Active(s, o) ==
  /\ IsFulfilled(s, s.entities[o].cinit)
  /\ \A p \in 1..Len(s.promises) :
       ~(s.promises[p].k = "stopConsumer" /\ s.promises[p].n = o /\ IsPending(s, p))

\* Queue.stopConsumer()
StopConsumer(s, o) ==
  IF s.entities[o].cinit = 0
  THEN Rejected(Called(s, "stopConsumer", o, FALSE), "stopConsumer", o,
                "no consumer defined")
  ELSE LET s1 == NewPromise(Called(s, "stopConsumer", o, TRUE), "stopConsumer", o,
                            s.entities[o].cinit)
           sp == Len(s1.promises)
           s2 == IF Active(s, o) THEN [s1 EXCEPT !.hist.activeStops = @ \cup {sp}] ELSE s1
       IN Then(s2, {s.entities[o].cinit}, Job("cancel", o, sp))

\* this._channel.cancel(this._consumerTag, cb) of stopConsumer; on a dead
\* channel the call throws inside the reaction
CancelJob(s, o, sp) ==
  IF ChannelAlive(s, s.entities[o].ch)
  THEN [s EXCEPT !.tasks = @ \cup {TaskWith("cancel", o, sp, s.entities[o].ch,
                                            s.entities[o].ctag, "none")}]
  ELSE s

\* the broker ends the subscription of tag `tag` on channel c
Unsubscribed(s, c, tag) ==
  [s EXCEPT !.consumers = {sub \in @ : ~(sub.ch = c /\ sub.tag = tag)}]

\* a cancel callback that keeps the consumer state: a variant C14 excludes
CancelAckedKeeping(s, t) ==
  Fulfil(Unsubscribed([s EXCEPT !.tasks = @ \ {t}], t.c, t.d), t.b)

\* The callback of cancel, err unset: _consumerInitialized, _consumer and
\* _consumerOptions are deleted.
CancelAcked(s, t) ==
  Fulfil(Unsubscribed([s EXCEPT !.tasks = @ \ {t},
                                !.entities[t.a].cinit = 0,
                                !.entities[t.a].consumer = 0,
                                !.entities[t.a].copts = "undefined"], t.c, t.d), t.b)

CancelFailed(s, t) == Reject([s EXCEPT !.tasks = @ \ {t}], t.b)

\* channel.ack / nack / reject is called for delivery d on channel c; with
\* no channel the call is a TypeError
Acked(s, d, c, op, auto) ==
  IF c = 0 THEN s
  ELSE [s EXCEPT !.acks = @ \cup {[d |-> d, ch |-> c, op |-> op, auto |-> auto]}]

\* One delivery to the consumer function of subscription sub, a closure of
\* the Queue that subscribed: it reads _consumer, _consumerOptions and
\* _channel of the Queue as they are now.  `throws`: the application's
\* callback throws.  A delivery records the channel it arrived on, the
\* function that took it, the callback called, whether the try block was
\* left by an exception and the channel given to the Message.
OnMessage(s, sub, throws) ==
  LET q      == s.entities[sub.obj]
      threw  == throws \/ q.consumer = 0
      s1     == [s EXCEPT !.deliveries =
                   Append(@, [ch |-> sub.ch, fn |-> sub.fn, cb |-> q.consumer,
                              noAck |-> q.copts = "noAck", threw |-> threw,
                              channel |-> IF sub.fn = "processedMsgConsumer" THEN 0 ELSE q.ch])]
      d      == Len(s1.deliveries)
  IN IF sub.fn = "processedMsgConsumer" /\ ~threw /\ q.copts = "ack"
     THEN Acked(s1, d, q.ch, "ack", TRUE)
     ELSE s1

\* Message.ack / nack / reject: on the channel the Message holds, if any
MessageAck(s, d, op) == Acked(s, d, s.deliveries[d].channel, op, FALSE)

\* Binding.id
BindingId(s, b) ==
  LET src == s.entities[s.bindingObjs[b].source]
      dst == s.entities[s.bindingObjs[b].destination]
  IN <<src.name, IF dst.kind = "queue" THEN "Queue" ELSE "Exchange", dst.name, "">>

\* Binding._initialize: a new `initialized` promise whose executor waits on
\* the `initialized` its destination has at this moment.
BindingInitialize(s, b) ==
  LET s1 == NewPromise(s, "binding", b, s.entities[s.bindingObjs[b].destination].init)
      bp == Len(s1.promises)
  IN Then([s1 EXCEPT !.bindingObjs[b].init = bp],
          {s.entities[s.bindingObjs[b].destination].init}, Job("bind", b, bp))

\* new Binding(destination, source): registered under its id, then initialized
Bind(s, dst, src) ==
  LET s1 == [s EXCEPT !.bindingObjs = Append(@, [source |-> src, destination |-> dst,
                                                 init |-> 0])]
      b  == Len(s1.bindingObjs)
  IN BindingInitialize([s1 EXCEPT !.bindings[BindingId(s1, b)] = b], b)

\* queue._channel.bindQueue(...) / exchange._channel.bindExchange(...), on the
\* channel the destination has when the reaction runs
BindJob(s, b, bp) ==
  LET c  == s.entities[s.bindingObjs[b].destination].ch
      s1 == Attempt(s, "bind", s.bindingObjs[b].destination)
  IN IF ChannelAlive(s, c)
     THEN [s1 EXCEPT !.tasks = @ \cup {Task("bind", b, bp, c)}]
     ELSE s1

BindAcked(s, t) ==
  Fulfil([s EXCEPT !.tasks = @ \ {t},
                   !.hist.acked = @ \cup {<<"binding", t.a, s.channels[t.c].link>>}], t.b)

\* The callback of bindQueue / bindExchange, err set: the registry entry of
\* this id is deleted, then reject(err); with the destination's _connection
\* deleted the callback throws before it rejects.
BindFailed(s, t) ==
  LET s1 == [s EXCEPT !.tasks = @ \ {t}]
  IN IF s.entities[s.bindingObjs[t.a].destination].conn
     THEN Reject([s1 EXCEPT !.bindings[BindingId(s, t.a)] = 0], t.b)
     ELSE s1

\* Connection.declareTopology of one exchange, one queue and the binding of
\* the queue to the exchange
DeclareTopology(s) ==
  LET s1 == Declare(s, "exchange", NameOf("exchange"))
      s2 == Declare(s1, "queue", NameOf("queue"))
      s3 == Declare(s2, "exchange", NameOf("exchange"))
      s4 == Declare(s3, "queue", NameOf("queue"))
  IN Bind(s4, Declared(s4, "queue", NameOf("queue")),
              Declared(s4, "exchange", NameOf("exchange")))

\* --------------------------------------------------------- delete, close
\* Binding.delete: a new promise whose executor waits on the `initialized` of
\* the destination.
BindingDelete(s, b) ==
  LET dst == s.bindingObjs[b].destination
      s1  == NewPromise(s, "unbind", b, s.entities[dst].init)
  IN Then(s1, {s.entities[dst].init}, Job("unbind", b, Len(s1.promises)))

RECURSIVE DeleteBindings(_, _)
DeleteBindings(s, bs) ==
  IF bs = {} THEN s
  ELSE DeleteBindings(BindingDelete(s, Least(bs)), bs \ {Least(bs)})

\* the registered bindings whose source or destination is entity o
BindingsContaining(s, o) ==
  {b \in {s.bindings[i] : i \in BindingIds} \ {0} :
     s.bindingObjs[b].source = o \/ s.bindingObjs[b].destination = o}

\* Exchange.delete / close and Queue.delete / close: a new promise (its kind
\* is the method) whose executor waits on this.initialized.
Remove(s, o, method) ==
  LET s1 == NewPromise(s, method, o, s.entities[o].init)
  IN Then(s1, {s.entities[o].init}, Job("removeBindings", o, Len(s1.promises)))

\* The first reaction of delete / close: Binding.removeBindingsContaining,
\* whose join the second reaction waits on.  It throws, and the second
\* reaction never runs, when this._connection is deleted or when the
\* destination of a binding has no `initialized`.
RemoveBindingsJob(s, o, dp) ==
  LET bs == BindingsContaining(s, o)
      s1 == DeleteBindings(s, bs)
      ps == {p \in (Len(s.promises) + 1)..Len(s1.promises) : TRUE}
  IN IF ~s.entities[o].conn
        \/ \E b \in bs : s.entities[s.bindingObjs[b].destination].init = 0
     THEN s
     ELSE Then(s1, ps, Job("afterUnbind", o, dp))

\* queue._channel.unbindQueue(...) / exchange._channel.unbindExchange(...)
UnbindJob(s, b, up) ==
  LET c == s.entities[s.bindingObjs[b].destination].ch
  IN IF ChannelAlive(s, c)
     THEN [s EXCEPT !.tasks = @ \cup {Task("unbind", b, up, c)}]
     ELSE s

\* an unbind callback that resolves and keeps the registry entry: a variant
\* C20 excludes
UnbindAckedKeeping(s, t) == Fulfil([s EXCEPT !.tasks = @ \ {t}], t.b)

\* The callback of unbindQueue / unbindExchange, err unset: the registry
\* entry of this id is deleted; with the destination's _connection deleted
\* the callback throws.
UnbindAcked(s, t) ==
  LET s1 == [s EXCEPT !.tasks = @ \ {t}]
  IN IF s.entities[s.bindingObjs[t.a].destination].conn
     THEN Fulfil([s1 EXCEPT !.bindings[BindingId(s, t.a)] = 0], t.b)
     ELSE s1

UnbindFailed(s, t) == Reject([s EXCEPT !.tasks = @ \ {t}], t.b)

\* delete this.initialized; delete this._connection._exchanges[this._name]
Invalidate(s, o, why) ==
  IF s.entities[o].conn
  THEN Unregister([s EXCEPT !.entities[o].init = 0], o, why)
  ELSE [s EXCEPT !.entities[o].init = 0]

\* this._channel.close(cb); it throws on a channel that is dead or deleted
CloseChannel(s, o, dp) ==
  IF ChannelAlive(s, s.entities[o].ch)
  THEN [s EXCEPT !.tasks = @ \cup {Task("closeChannel", o, dp, s.entities[o].ch)}]
  ELSE s

\* The second reaction of delete: deleteExchange / deleteQueue on the channel;
\* of close: the entity is invalidated and its channel closed.
AfterUnbindJob(s, o, dp) ==
  IF s.promises[dp].k = "delete"
  THEN IF ChannelAlive(s, s.entities[o].ch)
       THEN [s EXCEPT !.tasks = @ \cup {Task("deleteEntity", o, dp, s.entities[o].ch)}]
       ELSE s
  ELSE IF s.entities[o].conn THEN CloseChannel(Invalidate(s, o, "close"), o, dp)
       ELSE [s EXCEPT !.entities[o].init = 0]

\* The callback of deleteExchange / deleteQueue, err unset.  Queue.delete
\* invalidates the queue before it closes the channel, Exchange.delete in the
\* callback of the close.
DeleteAcked(s, t) ==
  LET s1 == [s EXCEPT !.tasks = @ \ {t}]
  IN IF s.entities[t.a].kind = "queue"
     THEN IF s.entities[t.a].conn THEN CloseChannel(Invalidate(s1, t.a, "delete"), t.a, t.b)
          ELSE [s1 EXCEPT !.entities[t.a].init = 0]
     ELSE CloseChannel(s1, t.a, t.b)

DeleteFailed(s, t) == Reject([s EXCEPT !.tasks = @ \ {t}], t.b)

\* The callback of channel.close: for Exchange.delete the exchange is
\* invalidated first, with or without err.
CloseAnswered(s, t, ok) ==
  LET s1 == [s EXCEPT !.tasks = @ \ {t}]
      s2 == IF s.entities[t.a].kind = "exchange" /\ s.promises[t.b].k = "delete"
            THEN Invalidate(s1, t.a, "delete") ELSE s1
      lost == s.entities[t.a].kind = "exchange" /\ s.promises[t.b].k = "delete"
              /\ ~s.entities[t.a].conn
  IN IF lost THEN s2
     ELSE IF ok
     THEN Fulfil([s2 EXCEPT !.channels[t.c].open = FALSE,
                            !.entities[t.a].ch = 0,
                            !.entities[t.a].conn = FALSE], t.b)
     ELSE Reject(s2, t.b)

\* ------------------------------------------------------------ _rebuildAll
\* queue._initialize() and, when the queue has a _consumer,
\* queue._initializeConsumer(); exchange._initialize()
ReInitializeOne(s, o) ==
  IF s.entities[o].consumer # 0 THEN InitializeConsumer(Initialize(s, o), o)
  ELSE Initialize(s, o)

RECURSIVE ReInitialize(_, _)
ReInitialize(s, os) ==
  IF os = {} THEN s
  ELSE ReInitialize(ReInitializeOne(s, Least(os)), os \ {Least(os)})

RECURSIVE ReInitializeBindings(_, _)
ReInitializeBindings(s, bs) ==
  IF bs = {} THEN s
  ELSE ReInitializeBindings(BindingInitialize(s, Least(bs)), bs \ {Least(bs)})

RegisteredBindings(s)  == {s.bindings[b] : b \in BindingIds} \ {0}

RegisteredExchanges(s) == {s.exchanges[n] : n \in ExchangeNames} \ {0}
RegisteredQueues(s)    == {s.queues[n] : n \in QueueNames} \ {0}

\* What is registered: the entities by kind, the bindings, and the queues
\* that have a consumer.
Topology(s) ==
  {<<s.entities[o].kind, o>> : o \in RegisteredExchanges(s) \cup RegisteredQueues(s)}
  \cup {<<"binding", b>> : b \in RegisteredBindings(s)}
  \cup {<<"consumer", o>> : o \in {q \in RegisteredQueues(s) : s.entities[q].consumer # 0}}

\* Connection.completeConfiguration: the promises it joins.
CompleteConfiguration(s) ==
  ( {s.entities[o].init : o \in RegisteredExchanges(s) \cup RegisteredQueues(s)}
    \cup {s.entities[o].cinit : o \in RegisteredQueues(s)}
    \cup {s.bindingObjs[b].init : b \in RegisteredBindings(s)} ) \ {0}

\* The synchronous part of Connection._rebuildAll.
RebuildAllSync(s, by) ==
  LET s1 == RebuildConnection(s)
      s2 == ReInitialize(s1, RegisteredExchanges(s1))
      s3 == ReInitialize(s2, RegisteredQueues(s2))
      s4 == ReInitializeBindings(s3, RegisteredBindings(s3))
  IN [s4 EXCEPT !.hist.rebuildAlls = @ + 1,
                !.hist.joined = IF s.rebuilding THEN @ \cup {by} ELSE @,
                !.hist.before = Topology(s),
                !.hist.rebuilt = CompleteConfiguration(s4)]

\* Connection._rebuildAll(err).then(k)
RebuildAllThen(s, by, k) ==
  LET s1 == RebuildAllSync(s, by) IN Then(s1, CompleteConfiguration(s1), k)

\* -------------------------------------------------- deleteConfiguration
\* The loops of deleteConfiguration: binding.delete() for every binding;
\* stopConsumer() (for a queue with a _consumerInitialized) and delete() for
\* every queue or exchange.  Where the `initialized` a delete waits on was
\* deleted, its executor throws a TypeError and the promise is rejected.
RECURSIVE DeleteAllBindings(_, _)
DeleteAllBindings(s, bs) ==
  IF bs = {} THEN s
  ELSE LET b  == Least(bs)
           s1 == IF s.entities[s.bindingObjs[b].destination].init = 0
                 THEN Rejected(s, "unbind", b, "TypeError")
                 ELSE BindingDelete(s, b)
       IN DeleteAllBindings(s1, bs \ {b})

RECURSIVE DeleteAll(_, _)
DeleteAll(s, os) ==
  IF os = {} THEN s
  ELSE LET o  == Least(os)
           s1 == IF s.entities[o].kind = "queue" /\ s.entities[o].cinit # 0
                 THEN StopConsumer(s, o) ELSE s
           s2 == IF s.entities[o].init = 0
                 THEN Rejected(s1, "delete", o, "TypeError")
                 ELSE Remove(s1, o, "delete")
       IN DeleteAll(s2, os \ {o})

\* Connection.deleteConfiguration: the bindings, then the queues (a queue
\* with a _consumerInitialized: stopConsumer first), then the exchanges; the
\* promises of all these calls are joined.
DeleteConfiguration(s) ==
  LET s1 == DeleteAllBindings(s, RegisteredBindings(s))
      s2 == DeleteAll(s1, RegisteredQueues(s1))
      s3 == DeleteAll(s2, RegisteredExchanges(s2))
  IN All(s3, (Len(s.promises) + 1)..Len(s3.promises), "deleteConfiguration")

\* ---------------------------------------------------------------- publish
\* Exchange.publish gates on `initialized` with then(); Queue.publish and
\* Message.sendTo run the channel call at once when `initialized` is fulfilled.
RECURSIVE CallPublish(_, _, _, _)
\* a channel publish whose catch block starts no rebuild: a variant C9 excludes
ChannelPublishRaising(s, o, m) ==
  IF ChannelAlive(s, s.entities[o].ch)
  THEN [s EXCEPT !.sent = Append(@, [msg |-> m, ch |-> s.entities[o].ch,
                                     rebuilds |-> s.hist.rebuildAlls])]
  ELSE [s EXCEPT !.msgs[m].throws = @ + 1]

\* The channel call of publish / sendTo inside its try block, and the catch
\* block: on a throw, _rebuildAll(err).then(retransmit).
ChannelPublish(s, o, m) ==
  LET s1 == Attempt(s, "publish", o)
  IN IF ChannelAlive(s, s.entities[o].ch)
     THEN [s1 EXCEPT !.sent = Append(@, [msg |-> m, ch |-> s.entities[o].ch,
                                         rebuilds |-> s.hist.rebuildAlls])]
     ELSE IF s.entities[o].conn
          THEN RebuildAllThen([s1 EXCEPT !.msgs[m].throws = @ + 1], "publish",
                              Job("retransmit", m, 0))
          ELSE [s1 EXCEPT !.msgs[m].throws = @ + 1]

\* an Exchange.publish that runs at once when `initialized` is fulfilled, as
\* Queue.publish does: a variant C10 excludes
CallPublishAtOnce(s, o, m, via) ==
  IF IsFulfilled(s, s.entities[o].init)
  THEN ChannelPublish(s, o, m)
  ELSE Then(s, {s.entities[o].init}, Job("publish", o, m))

CallPublish(s, o, m, via) ==
  IF s.entities[o].kind = "exchange" /\ via = "publish"
  THEN Then(s, {s.entities[o].init}, Job("publish", o, m))
  ELSE IF IsFulfilled(s, s.entities[o].init)
       THEN ChannelPublish(s, o, m)
       ELSE Then(s, {s.entities[o].init}, Job("publish", o, m))

\* The reaction of _rebuildAll(err).then(...): the destination is looked up by
\* name and its publish called; with no entry of that name the reaction throws.
Retransmit(s, m) ==
  LET o == IF s.msgs[m].dest = "exchange" THEN s.exchanges[NameOf("exchange")]
           ELSE s.queues[NameOf("queue")]
  IN IF o = 0 \/ s.entities[o].init = 0 THEN s
     ELSE CallPublish([s EXCEPT !.msgs[m].retransmits = @ + 1], o, m, "publish")

\* ---------------------------------------------------------------- content
\* A string is a sequence of characters, a Buffer a sequence of bytes.
\* new Buffer(string): the UTF-8 encoding, one byte for an ASCII character
\* and two for U+00E9 (written "eacute").
Utf8Char(c) ==
  CASE c = "0" -> <<48>>  [] c = "1" -> <<49>>  [] c = "a" -> <<97>>
    [] c = "e" -> <<101>> [] c = "f" -> <<102>> [] c = "l" -> <<108>>
    [] c = "n" -> <<110>> [] c = "r" -> <<114>> [] c = "s" -> <<115>>
    [] c = "t" -> <<116>> [] c = "u" -> <<117>> [] c = "eacute" -> <<195, 169>>

RECURSIVE Utf8(_)
Utf8(str) == IF str = <<>> THEN <<>> ELSE Utf8Char(Head(str)) \o Utf8(Tail(str))

\* JSON.stringify of a number 0..9, a boolean or null
JsonStringify(c) ==
  CASE c.t = "number" -> IF c.v = 0 THEN <<"0">> ELSE <<"1">>
    [] c.t = "boolean" -> IF c.v THEN <<"t", "r", "u", "e">> ELSE <<"f", "a", "l", "s", "e">>
    [] c.t = "null" -> <<"n", "u", "l", "l">>

\* What a publish path hands to the channel: the bytes and the contentType
\* of the options ("undefined" when the options have none).
\* Exchange.publish, lines 445-450
ExchangeContent(c, contentType) ==
  IF c.t = "string" THEN [content |-> Utf8(c.v), contentType |-> contentType]
  ELSE IF c.t # "buffer"
  THEN [content |-> Utf8(JsonStringify(c)),
        contentType |-> IF contentType # "undefined" THEN contentType
                        ELSE "application/json"]
  ELSE [content |-> c.v, contentType |-> contentType]

\* Queue._packMessageContent, called by Queue.publish
PackMessageContent(c, contentType) ==
  IF c.t = "string" THEN [content |-> Utf8(c.v), contentType |-> contentType]
  ELSE IF c.t # "buffer"
  THEN [content |-> Utf8(JsonStringify(c)), contentType |-> "application/json"]
  ELSE [content |-> c.v, contentType |-> contentType]

\* new Message(content, options): Message.setContent; sendTo hands
\* this.content and this.properties to the channel
SetContent(c, contentType) ==
  IF c.t = "string" THEN [content |-> Utf8(c.v), contentType |-> contentType]
  ELSE IF c.t # "buffer"
  THEN [content |-> Utf8(JsonStringify(c)), contentType |-> "application/json"]
  ELSE [content |-> c.v, contentType |-> contentType]

\* The contents and options.contentType values the application passes.
Contents ==
  {[t |-> "string", v |-> str] :
     str \in UNION {[1..n -> {"a", "eacute"}] : n \in 0..MaxChars}}
  \cup {[t |-> "buffer", v |-> b] : b \in {<<>>, <<97>>, <<255>>}}
  \cup {[t |-> "number", v |-> n] : n \in 0..1}
  \cup {[t |-> "boolean", v |-> b] : b \in BOOLEAN}
  \cup {[t |-> "null", v |-> 0]}

ContentTypes == {"undefined", "text/plain", "application/json"}

\* -------------------------------------------------------------------- rpc
\* this._channel.consume(DIRECT_REPLY_TO_QUEUE, onReply, {noAck: true}, cb) of
\* rpc.  Without a channel or on a dead channel the call throws: inside the
\* executor of the rpc promise that rejects the promise, inside a reaction
\* the promise stays pending.
RpcConsume(s, o, rp, sync) ==
  LET s1 == Attempt(s, "rpc", o)
  IN IF ChannelAlive(s, s.entities[o].ch)
     THEN [s1 EXCEPT !.tasks = @ \cup {Task("rpcConsume", o, rp, s.entities[o].ch)}]
     ELSE IF sync THEN Reject(s1, rp) ELSE s1

\* Exchange.rpc consumes at once; Queue.rpc at once when `initialized` is
\* fulfilled and in a reaction of `initialized` otherwise.
Rpc(s, o) ==
  LET s1 == NewPromise(s, "rpc", o, 0)
      rp == Len(s1.promises)
      s2 == [s1 EXCEPT !.rpcs = Append(@, [obj |-> o, p |-> rp, tag |-> 0])]
  IN IF s.entities[o].kind = "exchange" \/ IsFulfilled(s, s.entities[o].init)
     THEN RpcConsume(s2, o, rp, TRUE)
     ELSE Then(s2, {s.entities[o].init}, Job("rpc", o, rp))

\* the rpc call whose promise is rp
RpcOf(s, rp) == CHOOSE r \in 1..Len(s.rpcs) : s.rpcs[r].p = rp

\* The callback of the consume of rpc, err unset: consumerTag = ok.consumerTag
\* (the tag of the subscription is the id of the rpc promise), then the
\* request is sent: Exchange.rpc through Message.sendTo, Queue.rpc through
\* Queue.publish.
RpcConsumeAcked(s, t) ==
  LET o   == t.a
      via == IF s.entities[o].kind = "exchange" THEN "send" ELSE "publish"
      s1  == [s EXCEPT !.tasks = @ \ {t},
                       !.rpcs[RpcOf(s, t.b)].tag = t.b,
                       !.consumers = @ \cup {[queue |-> "amq.rabbitmq.reply-to", obj |-> o,
                                              ch |-> t.c, tag |-> t.b, fn |-> "rpc"]}]
      s2  == [s1 EXCEPT !.msgs = Append(@, [dest |-> s.entities[o].kind, via |-> via,
                                            obj |-> o,
                                            early |-> ~IsFulfilled(s, s.entities[o].init),
                                            rebuilds |-> s.hist.rebuildAlls,
                                            throws |-> 0, retransmits |-> 0, rpc |-> t.b])]
  IN IF s.entities[o].init = 0 THEN s1
     ELSE CallPublish(s2, o, Len(s2.msgs), via)

\* The callback of the consume of rpc, err set.
RpcConsumeFailed(s, t) == Reject([s EXCEPT !.tasks = @ \ {t}], t.b)

\* The delivery callback of the consume of rpc: this._channel.cancel(consumerTag)
\* on the channel the entity has now, then resolve(reply).  When the cancel
\* throws, resolve is not reached.
OnReply(s, sub) ==
  LET c  == s.entities[sub.obj].ch
      s1 == [s EXCEPT !.hist.replies = @ + 1]
  IN IF ChannelAlive(s, c)
     THEN Fulfil([s1 EXCEPT !.tasks = @ \cup {TaskWith("rpcCancel", sub.obj, sub.tag, c,
                                                       s.rpcs[RpcOf(s, sub.tag)].tag, "none")}],
                 sub.tag)
     ELSE s1

\* ----------------------------------------------------------------- init
InitWith(rs, lim) ==
  /\ retries \in rs
  /\ LET s0 == [retries |-> retries, rebuilding |-> FALSE, initialized |-> 0,
                connection |-> 0,
                exchanges |-> [n \in ExchangeNames |-> 0],
                queues |-> [n \in QueueNames |-> 0],
                bindings |-> [b \in BindingIds |-> 0],
                promises |-> <<>>, entities |-> <<>>, bindingObjs |-> <<>>,
                channels |-> <<>>,
                linkUp |-> {}, listening |-> {}, waits |-> <<>>, jobs |-> <<>>,
                tasks |-> {}, consumers |-> {}, rpcs |-> <<>>, deliveries |-> <<>>,
                acks |-> {}, sent |-> <<>>, msgs |-> <<>>,
                limits |-> lim,
                hist |-> [rebuildAlls |-> 0, refusals |-> 0, drops |-> 0,
                          removals |-> 0, closes |-> 0, joined |-> {}, acked |-> {},
                          before |-> {}, rebuilt |-> {}, calls |-> <<>>,
                          errors |-> {}, ungated |-> {}, activeStops |-> {},
                          replies |-> 0, unbinds |-> 0, order |-> <<>>]]
         s1 == RebuildConnection(s0)       \* the constructor, line 60
     IN /\ _rebuilding = s1.rebuilding
        /\ initialized = s1.initialized
        /\ _connection = s1.connection
        /\ _exchanges = s1.exchanges
        /\ _queues = s1.queues
        /\ _bindings = s1.bindings
        /\ bindingObjs = s1.bindingObjs
        /\ consumers = s1.consumers
        /\ rpcs = s1.rpcs
        /\ deliveries = s1.deliveries
        /\ acks = s1.acks
        /\ limits = s1.limits
        /\ promises = s1.promises
        /\ entities = s1.entities
        /\ channels = s1.channels
        /\ linkUp = s1.linkUp
        /\ listening = s1.listening
        /\ waits = s1.waits
        /\ jobs = s1.jobs
        /\ tasks = s1.tasks
        /\ sent = s1.sent
        /\ msgs = s1.msgs
        /\ hist = s1.hist

\* the retry test with >= for >: a variant C2 excludes
MayRetryOnceMore(s, retry) == s.retries = 0 \/ s.retries >= retry

\* The test tryToConnect makes when a connect fails (line 103).
MayRetry(s, retry) == s.retries = 0 \/ s.retries > retry

\* the broker refuses the connect (the callback of AmqpLib.connect, err set)
ConnectRefused ==
  \E t \in tasks :
    /\ t.t = "connect" /\ jobs = <<>>
    /\ promises[t.a].n <= retries + MaxRefusedConnects
    /\ LET s1 == [State EXCEPT !.tasks = @ \ {t}]
       IN IF MayRetry(State, t.b)
          THEN Becomes([s1 EXCEPT !.tasks = @ \cup {Task("timer", t.a, t.b + 1, 0)}])
          ELSE Becomes(ConnectSettled(s1, t.a, FALSE))

\* setTimeout(thisConnection.tryToConnect, interval, thisConnection, retry + 1, callback)
RetryTimer ==
  \E t \in tasks :
    /\ t.t = "timer" /\ jobs = <<>>
    /\ Becomes(TryToConnect([State EXCEPT !.tasks = @ \ {t}], t.a, t.b))

\* the connect succeeds: the restart listener is installed, the link stored
ConnectAccepted ==
  \E t \in tasks :
    /\ t.t = "connect" /\ jobs = <<>>
    /\ LET s1 == [State EXCEPT !.tasks = @ \ {t},
                               !.linkUp = @ \cup {t.a},
                               !.listening = @ \cup {t.a},
                               !.connection = t.a]
       IN Becomes(ConnectSettled(s1, t.a, TRUE))

\* The restart listener tryToConnect installs on a link: it removes itself
\* and calls _rebuildAll.
Restart(s, l) ==
  IF l \in s.listening
  THEN RebuildAllSync([s EXCEPT !.listening = @ \ {l}], "restart")
  ELSE s

\* the link is closed without an "error" event: its channels are dead from
\* now on and nothing tells the Connection
LinkDrop ==
  \E l \in linkUp :
    /\ jobs = <<>>
    /\ hist.drops < limits.drops
    /\ Becomes([State EXCEPT !.linkUp = @ \ {l}, !.hist.drops = @ + 1])

\* the link fails: its "error" event runs the restart listener before the
\* operations pending on its channels are answered
LinkError ==
  \E l \in linkUp :
    /\ jobs = <<>>
    /\ hist.drops < limits.drops
    /\ Becomes(Restart([State EXCEPT !.linkUp = @ \ {l}, !.hist.drops = @ + 1], l))

\* the broker closes one channel of a link that stays up
ChannelClosed ==
  \E c \in 1..Len(channels) :
    /\ jobs = <<>>
    /\ ChannelAlive(State, c)
    /\ hist.closes < limits.closes
    /\ Becomes([State EXCEPT !.channels[c].open = FALSE, !.hist.closes = @ + 1])

\* this._connection._connection.createChannel(cb), run once the
\* Connection.initialized the executor waited on is fulfilled.  On an object
\* whose _connection was deleted, or on a link that is already down, the call
\* throws inside the reaction and the promise stays pending.
CreateChannelJob(s, o, ip) ==
  IF s.entities[o].conn /\ s.connection \in s.linkUp
  THEN [s EXCEPT !.tasks = @ \cup {Task("createChannel", o, ip, s.connection)}]
  ELSE s

\* The callback of createChannel, err unset: this._channel = channel, then
\* assertExchange / assertQueue on it.
ChannelCreated(s, t) ==
  LET s1 == [s EXCEPT !.tasks = @ \ {t},
                      !.channels = Append(@, [link |-> t.c, open |-> TRUE, by |-> t.b])]
      c  == Len(s1.channels)
  IN [s1 EXCEPT !.entities[t.a].ch = c,
                !.tasks = @ \cup {Task("assert", t.a, t.b, c)}]

\* The callback of createChannel, err set: reject(err) and nothing else.
ChannelFailed(s, t) == Reject([s EXCEPT !.tasks = @ \ {t}], t.b)

\* The callback of assertExchange / assertQueue, err unset.
AssertAcked(s, t) ==
  Fulfil([s EXCEPT !.tasks = @ \ {t},
                   !.hist.acked = @ \cup {<<s.entities[t.a].kind, t.a, s.channels[t.c].link>>}],
         t.b)

\* The callback of assertExchange / assertQueue, err set: the registry entry
\* of this name is deleted, then reject(err).  With this._connection deleted
\* the callback throws before it rejects.
AssertFailed(s, t) ==
  LET s1 == [s EXCEPT !.tasks = @ \ {t}]
  IN IF s.entities[t.a].conn THEN Reject(Unregister(s1, t.a, "assertFailed"), t.b) ELSE s1

\* One promise reaction.
RunJob(s, j) ==
  CASE j.t = "createChannel" -> CreateChannelJob(s, j.a, j.b)
    [] j.t = "consume" -> ConsumeJob(s, j.a, j.b)
    [] j.t = "cancel" -> CancelJob(s, j.a, j.b)
    [] j.t = "rpc" -> RpcConsume(s, j.a, j.b, FALSE)
    [] j.t = "bind" -> BindJob(s, j.a, j.b)
    [] j.t = "publish" -> ChannelPublish(s, j.a, j.b)
    [] j.t = "retransmit" -> Retransmit(s, j.a)
    [] j.t = "removeBindings" -> RemoveBindingsJob(s, j.a, j.b)
    [] j.t = "unbind" -> UnbindJob(s, j.a, j.b)
    [] j.t = "afterUnbind" -> AfterUnbindJob(s, j.a, j.b)
    [] j.t = "all" -> Fulfil(s, j.b)
    [] OTHER -> s

\* ---------------------------------------------------------------- steps
Reaction ==
  /\ jobs # <<>>
  /\ Becomes(RunJob([State EXCEPT !.jobs = Tail(@)], Head(jobs)))

\* a library callback that answers a pending operation with an error: the
\* channel (or link) of the operation is dead, or the broker refuses it
MayFail(t) ==
  \/ t.t = "createChannel" /\ t.c \notin linkUp
  \/ t.t # "createChannel" /\ ~ChannelAlive(State, t.c)
  \/ hist.refusals < limits.refusals

\* amqplib sends the operations of a channel one at a time and, once close
\* was called on a channel, answers no other operation of it: in a serial run
\* an operation is answered when it is the oldest outstanding on its channel
\* and the channel is not closing.
InOrder(t) ==
  limits.serial =>
    /\ \A u \in tasks : ~(u.t = "closeChannel" /\ u.c = t.c)
    /\ \A i \in 1..Len(hist.order) :
         hist.order[i] = t => \A j \in 1..(i - 1) : hist.order[j].c # t.c

Refusing(s, t) ==
  IF (t.t = "createChannel" /\ t.c \in s.linkUp) \/ (t.t # "createChannel" /\ ChannelAlive(s, t.c))
  THEN [s EXCEPT !.hist.refusals = @ + 1] ELSE s

CreateChannelOk ==
  \E t \in tasks :
    /\ t.t = "createChannel" /\ jobs = <<>>
    /\ t.c \in linkUp
    /\ Becomes(ChannelCreated(State, t))

CreateChannelErr ==
  \E t \in tasks :
    /\ t.t = "createChannel" /\ jobs = <<>>
    /\ MayFail(t)
    /\ Becomes(ChannelFailed(Refusing(State, t), t))

AssertOk ==
  \E t \in tasks :
    /\ t.t = "assert" /\ jobs = <<>>
    /\ ChannelAlive(State, t.c) /\ InOrder(t)
    /\ Becomes(AssertAcked(State, t))

AssertErr ==
  \E t \in tasks :
    /\ t.t = "assert" /\ jobs = <<>>
    /\ MayFail(t)
    /\ Becomes(AssertFailed(Refusing(State, t), t))

\* the application calls declareExchange / declareQueue
DeclareEntity ==
  \E kind \in limits.kinds :
    /\ jobs = <<>>
    /\ Len(entities) < limits.objs \/ Declared(State, kind, NameOf(kind)) # 0
    /\ Becomes(Declare(State, kind, NameOf(kind)))

\* the application calls activateConsumer on the registered queue
Consume ==
  \E n \in QueueNames :
    /\ _queues[n] # 0 /\ jobs = <<>>
    /\ entities[_queues[n]].cinit = 0
    /\ Becomes(ActivateConsumer(State, _queues[n], FALSE))

ConsumeOk ==
  \E t \in tasks :
    /\ t.t = "consume" /\ jobs = <<>>
    /\ ChannelAlive(State, t.c) /\ InOrder(t)
    /\ Becomes(ConsumeAcked(State, t))

ConsumeErr ==
  \E t \in tasks :
    /\ t.t = "consume" /\ jobs = <<>>
    /\ MayFail(t)
    /\ Becomes(ConsumeFailed(Refusing(State, t), t))

\* the application calls declareTopology and, in the same turn,
\* activateConsumer on the queue
DeclareTopologyAndConsume ==
  /\ jobs = <<>>
  /\ entities = <<>>
  /\ LET s1 == DeclareTopology(State)
     IN Becomes(ActivateConsumer(s1, Declared(s1, "queue", NameOf("queue")), FALSE))

\* the application calls queue.bind(exchange) on the registered entities
BindQueue ==
  \E e \in ExchangeNames, q \in QueueNames :
    /\ _exchanges[e] # 0 /\ _queues[q] # 0 /\ jobs = <<>>
    /\ Len(bindingObjs) < limits.binds
    /\ Becomes(Bind(State, _queues[q], _exchanges[e]))

BindOk ==
  \E t \in tasks :
    /\ t.t = "bind" /\ jobs = <<>>
    /\ ChannelAlive(State, t.c) /\ InOrder(t)
    /\ Becomes(BindAcked(State, t))

BindErr ==
  \E t \in tasks :
    /\ t.t = "bind" /\ jobs = <<>>
    /\ MayFail(t)
    /\ Becomes(BindFailed(Refusing(State, t), t))

\* the application calls publish(content) or send(message) on a registered
\* Exchange or Queue
Publish ==
  \E kind \in limits.kinds, via \in {"publish", "send"} :
    LET o == Declared(State, kind, NameOf(kind)) IN
    /\ Cardinality({m \in 1..Len(msgs) : msgs[m].rpc = 0}) < limits.msgs
    /\ o # 0 /\ entities[o].init # 0
    /\ Becomes(CallPublish([State EXCEPT !.msgs = Append(@, [dest |-> kind, via |-> via,
                                                             obj |-> o,
                                                             early |-> ~IsFulfilled(State, entities[o].init),
                                                             rebuilds |-> hist.rebuildAlls,
                                                             throws |-> 0,
                                                             retransmits |-> 0,
                                                             rpc |-> 0])],
                           o, Len(msgs) + 1, via))

\* the application calls delete() or close() on a registered Exchange or Queue
RemoveEntity ==
  \E kind \in limits.kinds, method \in {"delete", "close"} :
    LET o == Declared(State, kind, NameOf(kind)) IN
    /\ jobs = <<>>
    /\ o # 0 /\ entities[o].init # 0
    /\ hist.removals < limits.removals
    /\ Becomes(Remove([State EXCEPT !.hist.removals = @ + 1], o, method))

UnbindOk ==
  \E t \in tasks :
    /\ t.t = "unbind" /\ jobs = <<>>
    /\ ChannelAlive(State, t.c) /\ InOrder(t)
    /\ Becomes(UnbindAcked(State, t))

UnbindErr ==
  \E t \in tasks :
    /\ t.t = "unbind" /\ jobs = <<>>
    /\ MayFail(t)
    /\ Becomes(UnbindFailed(Refusing(State, t), t))

DeleteOk ==
  \E t \in tasks :
    /\ t.t = "deleteEntity" /\ jobs = <<>>
    /\ ChannelAlive(State, t.c) /\ InOrder(t)
    /\ Becomes(DeleteAcked(State, t))

DeleteErr ==
  \E t \in tasks :
    /\ t.t = "deleteEntity" /\ jobs = <<>>
    /\ MayFail(t)
    /\ Becomes(DeleteFailed(Refusing(State, t), t))

CloseOk ==
  \E t \in tasks :
    /\ t.t = "closeChannel" /\ jobs = <<>>
    /\ ChannelAlive(State, t.c)
    /\ Becomes(CloseAnswered(State, t, TRUE))

CloseErr ==
  \E t \in tasks :
    /\ t.t = "closeChannel" /\ jobs = <<>>
    /\ MayFail(t)
    /\ Becomes(CloseAnswered(Refusing(State, t), t, FALSE))

\* the application calls startConsumer on the registered queue
StartConsumerCall ==
  \E n \in QueueNames, raw \in BOOLEAN, noAck \in BOOLEAN :
    /\ _queues[n] # 0 /\ jobs = <<>>
    /\ Len(hist.calls) < limits.calls
    /\ Becomes(StartConsumer(State, _queues[n], raw, noAck))

\* the application calls activateConsumer on the registered queue
ActivateConsumerCall ==
  \E n \in QueueNames, noAck \in BOOLEAN :
    /\ _queues[n] # 0 /\ jobs = <<>>
    /\ Len(hist.calls) < limits.calls
    /\ Becomes(ActivateConsumer(State, _queues[n], noAck))

\* the application calls stopConsumer on the registered queue
StopConsumerCall ==
  \E n \in QueueNames :
    /\ _queues[n] # 0 /\ jobs = <<>>
    /\ Len(hist.calls) < limits.calls
    /\ Becomes(StopConsumer(State, _queues[n]))

CancelOk ==
  \E t \in tasks :
    /\ t.t = "cancel" /\ jobs = <<>>
    /\ ChannelAlive(State, t.c) /\ InOrder(t)
    /\ Becomes(CancelAcked(State, t))

CancelErr ==
  \E t \in tasks :
    /\ t.t = "cancel" /\ jobs = <<>>
    /\ MayFail(t)
    /\ Becomes(CancelFailed(Refusing(State, t), t))

\* the broker delivers a message to a subscription of a queue on a live
\* channel
Deliver ==
  \E sub \in consumers, throws \in BOOLEAN :
    /\ sub.fn # "rpc" /\ jobs = <<>>
    /\ ChannelAlive(State, sub.ch)
    /\ Len(deliveries) < limits.deliveries
    /\ Becomes(OnMessage(State, sub, throws))

\* the application calls ack, nack or reject on a Message its
\* activateConsumer callback received
AckMessage ==
  \E d \in 1..Len(deliveries), op \in {"ack", "nack", "reject"} :
    /\ jobs = <<>>
    /\ deliveries[d].fn = "activateConsumerWrapper" /\ deliveries[d].cb # 0
    /\ \A a \in acks : a.d # d
    /\ Becomes(MessageAck(State, d, op))

\* the application calls rpc on a registered Exchange or Queue
RpcCall ==
  \E kind \in limits.kinds :
    LET o == Declared(State, kind, NameOf(kind)) IN
    /\ jobs = <<>>
    /\ Len(rpcs) < limits.rpcs
    /\ o # 0 /\ entities[o].init # 0
    /\ Becomes(Rpc(State, o))

RpcConsumeOk ==
  \E t \in tasks :
    /\ t.t = "rpcConsume" /\ jobs = <<>>
    /\ ChannelAlive(State, t.c) /\ InOrder(t)
    /\ Becomes(RpcConsumeAcked(State, t))

RpcConsumeErr ==
  \E t \in tasks :
    /\ t.t = "rpcConsume" /\ jobs = <<>>
    /\ MayFail(t)
    /\ Becomes(RpcConsumeFailed(Refusing(State, t), t))

\* the broker delivers a reply to the subscription of an rpc call whose
\* request went out on the channel of the subscription
RpcReply ==
  \E sub \in consumers :
    /\ sub.fn = "rpc" /\ jobs = <<>>
    /\ ChannelAlive(State, sub.ch)
    /\ hist.replies < limits.replies
    /\ \E i \in 1..Len(sent) : msgs[sent[i].msg].rpc = sub.tag /\ sent[i].ch = sub.ch
    /\ Becomes(OnReply(State, sub))

\* the broker takes the cancel of an rpc call, which has no callback: the
\* subscription of that tag on that channel, if any, ends
RpcCancelTaken ==
  \E t \in tasks :
    /\ t.t = "rpcCancel" /\ jobs = <<>>
    /\ Becomes(IF ChannelAlive(State, t.c)
               THEN Unsubscribed([State EXCEPT !.tasks = @ \ {t}], t.c, t.d)
               ELSE [State EXCEPT !.tasks = @ \ {t}])

\* the application calls unbind(source) on the registered queue, for a
\* binding that is registered
UnbindQueue ==
  \E id \in BindingIds :
    /\ _bindings[id] # 0 /\ jobs = <<>>
    /\ hist.unbinds < limits.unbinds
    /\ entities[bindingObjs[_bindings[id]].destination].init # 0
    /\ Becomes(BindingDelete([State EXCEPT !.hist.unbinds = @ + 1], _bindings[id]))

\* the application calls deleteConfiguration, and no declare, bind or
\* consumer call after it
DeleteConfigurationCall ==
  /\ jobs = <<>>
  /\ Cardinality({p \in 1..Len(promises) : promises[p].k = "deleteConfiguration"})
       < limits.teardowns
  /\ Becomes([DeleteConfiguration(State) EXCEPT !.limits.objs = 0,
                                                 !.limits.binds = 0,
                                                 !.limits.calls = 0])

\* The application publishes a content with options: `sent` records the path,
\* what was passed and what the channel is handed.
Handed(s, path, c, contentType, out) ==
  [s EXCEPT !.sent = Append(@, [path |-> path, given |-> c, option |-> contentType,
                                content |-> out.content,
                                contentType |-> out.contentType])]

ExchangePublishContent ==
  \E c \in Contents, ct \in ContentTypes :
    /\ Len(sent) < MaxContentCalls
    /\ Becomes(Handed(State, "Exchange.publish", c, ct, ExchangeContent(c, ct)))

QueuePublishContent ==
  \E c \in Contents, ct \in ContentTypes :
    /\ Len(sent) < MaxContentCalls
    /\ Becomes(Handed(State, "Queue.publish", c, ct, PackMessageContent(c, ct)))

MessageSendContent ==
  \E c \in Contents, ct \in ContentTypes :
    /\ Len(sent) < MaxContentCalls
    /\ Becomes(Handed(State, "Message.sendTo", c, ct, SetContent(c, ct)))

\* ---------------------------------------------------------------- claims
\* the connect attempts and retry timers outstanding
ChainTasks == {t \in tasks : t.t \in {"connect", "timer"}}

\* C1: at most one connect-attempt chain is in flight; it is the chain of the
\* current Connection.initialized, which is pending while _rebuilding is set:
\* a rebuildConnection call made meanwhile started no attempt of its own and
\* left Connection.initialized the same future.
C1_OneRebuildInFlight ==
  /\ Cardinality(ChainTasks) <= 1
  /\ \A t \in ChainTasks : t.a = initialized /\ _rebuilding /\ IsPending(State, t.a)
  /\ Cardinality({p \in 1..Len(promises) : promises[p].k = "conn" /\ IsPending(State, p)}) <= 1

\* C1 witness: a restart listener and a failed publish have both called
\* rebuildConnection while a rebuild was in progress
C1_Witness == hist.joined = {"restart", "publish"} /\ ChainTasks # {}

\* the promises rebuildConnection created
ConnPromises == {p \in 1..Len(promises) : promises[p].k = "conn"}

\* C2: with retries = N >= 1 a Connection.initialized is rejected only after
\* exactly N + 1 connect attempts and no attempt is made beyond them; with
\* retries = 0 it is never rejected; and while it is pending an attempt or a
\* retry timer of its chain is outstanding.
C2_RetryBudget ==
  \A p \in ConnPromises :
    /\ IsRejected(State, p) => retries >= 1 /\ promises[p].n = retries + 1
    /\ retries >= 1 => promises[p].n <= retries + 1
    /\ IsPending(State, p) => \E t \in ChainTasks : t.a = p

\* C2 witness: with the largest retry budget the broker refused every connect
\* and Connection.initialized is rejected
C2_Witness ==
  /\ retries = MaxRetries
  /\ IsRejected(State, initialized)
  /\ promises[initialized].n = MaxRetries + 1

\* the Exchange and Queue objects constructed
Objs == 1..Len(entities)

\* C6: an Exchange or Queue whose `initialized` is rejected is not in the
\* registry.
C6_RejectedIsUnregistered ==
  \A o \in Objs : IsRejected(State, entities[o].init) => ~Registered(State, o)

\* C7: once Connection.initialized is rejected and every reaction has run,
\* the `initialized` of every Exchange and Queue that waited on it is
\* rejected.
C7_RejectedWithConnection ==
  \A p \in 1..Len(promises) :
    (promises[p].k = "init" /\ IsRejected(State, promises[p].on) /\ jobs = <<>>)
      => IsRejected(State, p)

\* the last _rebuildAll has completed: every promise its
\* completeConfiguration joined is fulfilled
Rebuilt ==
  /\ hist.rebuildAlls > 0 /\ hist.rebuilt # {}
  /\ \A p \in hist.rebuilt : IsFulfilled(State, p)

\* the link of Connection._connection is up
Connected == _connection \in linkUp

\* entry x of a registry snapshot is declared on the current link; for a
\* consumer: the queue holds the tag of a live subscription on its channel
DeclaredOnLink(x) ==
  IF x[1] = "consumer"
  THEN \E sub \in consumers :
         /\ sub.queue = entities[x[2]].name
         /\ sub.tag = entities[x[2]].ctag
         /\ sub.ch = entities[x[2]].ch
         /\ ChannelAlive(State, sub.ch)
         /\ channels[sub.ch].link = _connection
  ELSE <<x[1], x[2], _connection>> \in hist.acked

\* all that was registered when _rebuildAll was last called is declared on
\* the current link
Recovered == Connected /\ \A x \in hist.before : DeclaredOnLink(x)

\* C3: after a link error every exchange, queue and binding registered at
\* the time of the error is eventually declared on the new link and every
\* queue that had a consumer has a live subscription on its new channel.
C3_Recovers == (hist.rebuildAlls > 0) ~> Recovered

\* C3 witness: an exchange, a queue with a consumer and their binding were
\* registered when the link failed, and all are declared on the new link
C3_Witness ==
  /\ hist.rebuildAlls > 0 /\ Recovered
  /\ {x[1] : x \in hist.before} = {"exchange", "queue", "binding", "consumer"}

\* C4: once the rebuild has completed, every exchange, queue and binding
\* registered just before _rebuildAll is registered.
C4_MembershipKept ==
  Rebuilt =>
    \A x \in hist.before :
      /\ x[1] \in {"exchange", "queue"} => Registered(State, x[2])
      /\ x[1] = "binding" => x[2] \in RegisteredBindings(State)

\* C5 as stated: an object leaves the registry only when it is deleted or
\* closed, so that declareExchange / declareQueue return it until then.
C5_SameObjectUntilDeletedOrClosed ==
  \A o \in Objs : entities[o].gone \notin {"delete", "close"} => Registered(State, o)

\* C5, amended: declareExchange / declareQueue return the same object for a
\* name until that object is deleted or closed or the error callback of an
\* assertExchange / assertQueue of that name removes the registry entry.
C5_SameObjectUntilEntryRemoved ==
  \A o \in Objs : entities[o].gone = "no" => Registered(State, o)

\* C5 witness: the declaration of a name failed, and the name was declared
\* again and yields a second, initialized, object
C5_Witness ==
  \E o1, o2 \in Objs :
    /\ o1 # o2 /\ entities[o1].name = entities[o2].name
    /\ entities[o1].gone = "assertFailed"
    /\ Registered(State, o2) /\ IsFulfilled(State, entities[o2].init)

\* the application's publish / send calls
Msgs == 1..Len(msgs)

\* message m was handed to a channel without a throw
Sent(m) == \E i \in 1..Len(sent) : sent[i].msg = m

\* everything has settled on a link that is up
Settled ==
  /\ jobs = <<>> /\ tasks = {} /\ waits = <<>>
  /\ IsFulfilled(State, initialized) /\ _connection \in linkUp

\* C8: once the rebuild has succeeded and nothing is pending, every message
\* that publish / send accepted has been handed to a channel without a throw.
C8_HandedAtLeastOnce ==
  \A m \in Msgs : (Settled /\ Rebuilt) => Sent(m)

\* C9 as stated: a message is retransmitted at most once.
C9_OneCyclePerPublish == \A m \in Msgs : msgs[m].retransmits <= 1

\* C9, amended: every throw of the channel publish starts one _rebuildAll and
\* at most one retransmission, and a retransmission that throws starts the
\* next cycle: the cycles per publish call are not bounded and no error is
\* raised.
C9_OneCyclePerThrow ==
  \A m \in Msgs :
    /\ msgs[m].retransmits <= msgs[m].throws
    /\ Len(msgs) = 1 => hist.rebuildAlls = msgs[m].throws

\* C9 witness: the retransmitted publish of a message threw again, a second
\* rebuild and retransmission followed, and the channel took the message
C9_Witness ==
  \E m \in Msgs : msgs[m].throws = 2 /\ msgs[m].retransmits = 2 /\ Sent(m)

\* entry i of `sent` is a publish call on an Exchange that completed without
\* a rebuild: its channel publish did not throw and no _rebuildAll was called
\* between the call and the channel publish
PublishedWithoutRebuild(i) ==
  LET m == msgs[sent[i].msg]
  IN /\ m.dest = "exchange" /\ m.via = "publish"
     /\ m.throws = 0 /\ m.rebuilds = sent[i].rebuilds

\* C10: the publish calls on an Exchange that completed without a rebuild
\* reached the channel in the order of the calls.
C10_PublishOrder ==
  \A i, j \in 1..Len(sent) :
    (/\ i < j
     /\ msgs[sent[i].msg].obj = msgs[sent[j].msg].obj
     /\ PublishedWithoutRebuild(i) /\ PublishedWithoutRebuild(j))
      => sent[i].msg < sent[j].msg

\* C10 witness: a publish called before the exchange was initialized and a
\* publish called after it have both reached the channel
C10_Witness ==
  /\ Len(sent) = 2 /\ Len(msgs) = 2
  /\ \A i \in 1..Len(sent) : PublishedWithoutRebuild(i)
  /\ msgs[1].early /\ ~msgs[2].early

\* C11: while no rebuild has occurred, the channel of an Exchange or Queue
\* has received the messages of the publish and send calls made on it in the
\* order of the calls.
C11_InCallOrder ==
  hist.rebuildAlls = 0 =>
    \A i, j \in 1..Len(sent) :
      (i < j /\ msgs[sent[i].msg].obj = msgs[sent[j].msg].obj)
        => sent[i].msg < sent[j].msg

\* C12: no channel call of an Exchange or Queue (publish, consume, bind, the
\* consume of rpc) is made while the `initialized` of that entity is not
\* fulfilled.
C12_GatedOnInitialized == hist.ungated = {}

\* the last startConsumer / activateConsumer / stopConsumer call of a step
\* that made one
LastCall == hist.calls'[Len(hist.calls')]

\* C13: a startConsumer or activateConsumer called on a Queue that has a
\* _consumerInitialized (Starting, Active or Cancelling) returns a promise
\* rejected with "consumer already defined", a stopConsumer called on a Queue
\* that has none returns a promise rejected with "no consumer defined"; such a
\* call leaves the Queue's callback, options and flags, the subscriptions and
\* the operations handed to the channel (no cancel) as they were.
C13_InvalidCallsRejected ==
  [][ (/\ Len(hist.calls') = Len(hist.calls) + 1
       /\ IF LastCall.api = "stopConsumer"
          THEN entities[LastCall.obj].cinit = 0
          ELSE entities[LastCall.obj].cinit # 0)
      => /\ Len(promises') = Len(promises) + 1
         /\ promises'[Len(promises')].st = "rejected"
         /\ <<Len(promises'), IF LastCall.api = "stopConsumer" THEN "no consumer defined"
                              ELSE "consumer already defined">> \in hist.errors'
         /\ entities' = entities /\ consumers' = consumers
         /\ tasks' = tasks /\ jobs' = jobs /\ waits' = waits
    ]_vars

\* C13 witness: a start on a Queue that has a consumer and a stop on a Queue
\* that has none were both rejected, and the consumer registered first is
\* still the Queue's consumer
C13_Witness ==
  /\ {e[2] : e \in hist.errors} = {"consumer already defined", "no consumer defined"}
  /\ \E o \in Objs, i, j \in 1..Len(hist.calls) :
       /\ i < j /\ hist.calls[i].accepted /\ ~hist.calls[j].accepted
       /\ hist.calls[j].api # "stopConsumer"
       /\ entities[o].consumer = i /\ IsFulfilled(State, entities[o].cinit)

\* C14: a stopConsumer called on an Active Queue issues channel.cancel on the
\* Queue's channel with the current consumer tag, and the step in which that
\* cancel is acknowledged ends the subscription and deletes
\* _consumerInitialized, _consumer and _consumerOptions: the Queue is Inactive,
\* so that the next startConsumer / activateConsumer is accepted and the next
\* stopConsumer rejected.
C14_StopClearsConsumer ==
  [][ \A p \in hist.activeStops :
        /\ \A t \in tasks' \ tasks :
             (t.t = "cancel" /\ t.b = p)
               => /\ t.d = entities[t.a].ctag /\ t.d = promises[p].on
                  /\ t.c = entities[t.a].ch
                  /\ \E sub \in consumers : sub.obj = t.a /\ sub.tag = t.d /\ sub.ch = t.c
        /\ (IsPending(State, p) /\ promises'[p].st = "fulfilled")
             => /\ entities'[promises[p].n].cinit = 0
                /\ entities'[promises[p].n].consumer = 0
                /\ entities'[promises[p].n].copts = "undefined"
                /\ ~\E sub \in consumers' : sub.obj = promises[p].n /\ sub.tag = promises[p].on
    ]_vars

\* C14 witness: a consumer was started and stopped while Active, a second
\* stopConsumer was then rejected and an activateConsumer accepted
C14_Witness ==
  /\ Len(hist.calls) = 4
  /\ hist.calls[2].api = "stopConsumer" /\ hist.calls[2].accepted
  /\ hist.calls[3].api = "stopConsumer" /\ ~hist.calls[3].accepted
  /\ hist.calls[4].api = "activateConsumer" /\ hist.calls[4].accepted
  /\ \E p \in hist.activeStops : IsFulfilled(State, p)

\* C15: a delivery to a callback registered with activateConsumer is made
\* through the activateConsumer wrapper (a Message object) and is not acked
\* automatically.
C15_ShapeOfLastRegistration ==
  \A d \in 1..Len(deliveries) :
    (deliveries[d].cb # 0 /\ hist.calls[deliveries[d].cb].api = "activateConsumer")
      => /\ deliveries[d].fn = "activateConsumerWrapper"
         /\ ~\E a \in acks : a.d = d /\ a.auto

\* C16: every ack, nack and reject of a delivery is issued on the channel
\* the delivery arrived on.
C16_AckOnDeliveringChannel ==
  \A a \in acks : a.ch = deliveries[a.d].ch

\* C17: a delivery to a callback registered with startConsumer is acked
\* automatically exactly once unless the options set noAck, in which case it
\* is not acked; it is never nacked or rejected.
C17_LegacyAutoAck ==
  \A d \in 1..Len(deliveries) :
    (deliveries[d].cb # 0 /\ hist.calls[deliveries[d].cb].api = "startConsumer")
      => /\ ~deliveries[d].noAck
              => Cardinality({a \in acks : a.d = d /\ a.auto /\ a.op = "ack"}) = 1
         /\ deliveries[d].noAck => ~\E a \in acks : a.d = d
         /\ \A a \in acks : a.d = d => a.op = "ack"

\* the subscriptions of rpc call r that are live
ReplySubscriptions(r) ==
  {sub \in consumers : sub.fn = "rpc" /\ sub.tag = rpcs[r].p /\ ChannelAlive(State, sub.ch)}

\* C18: the request of an rpc call is published only after its subscription
\* is acknowledged; the cancel issued at a reply carries the tag of that
\* subscription; and once the rpc future is resolved and the broker has taken
\* the cancel, no subscription of the call is live.
C18_ReplySubscriptionEnds ==
  \A r \in 1..Len(rpcs) :
    /\ \A m \in Msgs : msgs[m].rpc = rpcs[r].p => rpcs[r].tag = rpcs[r].p
    /\ \A t \in tasks : (t.t = "rpcCancel" /\ t.b = rpcs[r].p) => t.d = rpcs[r].p
    /\ (IsFulfilled(State, rpcs[r].p) /\ ~\E t \in tasks : t.t = "rpcCancel" /\ t.b = rpcs[r].p)
         => ReplySubscriptions(r) = {}

\* promise p is fulfilled by this step
Resolves(p) == IsPending(State, p) /\ promises'[p].st = "fulfilled"

\* C19: in the step that resolves the promise of a delete() or close() of an
\* Exchange or Queue, that entity is out of its registry, no registered
\* binding has it as source or destination, and every other exchange and
\* queue that was registered still is.
C19_GoneWhenResolved ==
  [][ \A p \in 1..Len(promises) :
        (promises[p].k \in {"delete", "close"} /\ Resolves(p))
          => /\ ~Registered(State', promises[p].n)
             /\ BindingsContaining(State', promises[p].n) = {}
             /\ \A x \in RegisteredExchanges(State) \cup RegisteredQueues(State) :
                  x # promises[p].n => Registered(State', x)
    ]_vars

\* C20: the step that resolves the promise of a Binding.delete() leaves no
\* entry under the binding's id in the registry, and the step that rejects it
\* leaves the registry as it was.
C20_UnboundWhenResolved ==
  [][ \A p \in 1..Len(promises) :
        promises[p].k = "unbind"
          => /\ Resolves(p) => _bindings'[BindingId(State, promises[p].n)] = 0
             /\ (IsPending(State, p) /\ promises'[p].st = "rejected") => _bindings' = _bindings
    ]_vars

\* C20 witness: an unbind was refused and left the binding registered, and a
\* second unbind of the same binding resolved and the entry is gone
C20_Witness ==
  \E p1, p2 \in 1..Len(promises) :
    /\ promises[p1].k = "unbind" /\ promises[p2].k = "unbind"
    /\ promises[p1].n = promises[p2].n
    /\ IsRejected(State, p1) /\ IsFulfilled(State, p2)
    /\ _bindings[BindingId(State, promises[p1].n)] = 0

\* the working channels that the _initialize calls of entity o created
LiveChannelsOf(o) ==
  {c \in 1..Len(channels) : promises[channels[c].by].n = o /\ ChannelAlive(State, c)}

\* C21: every working channel an Exchange or Queue created is the one it
\* references; a registered entity whose current `initialized` is fulfilled
\* references a channel of the current link; no channel is referenced by two
\* entities; and once a delete() or close() of an entity has resolved no
\* channel it created is working.
C21_OneChannelPerEntity ==
  /\ \A o \in Objs : LiveChannelsOf(o) \subseteq {entities[o].ch}
  /\ \A o \in Objs :
       (Registered(State, o) /\ IsFulfilled(State, entities[o].init))
         => entities[o].ch # 0 /\ channels[entities[o].ch].link = _connection
  /\ \A o1, o2 \in Objs :
       (o1 # o2 /\ entities[o1].ch # 0) => entities[o1].ch # entities[o2].ch
  /\ \A p \in 1..Len(promises) :
       (promises[p].k \in {"delete", "close"} /\ IsFulfilled(State, p))
         => LiveChannelsOf(promises[p].n) = {}

\* deleteConfiguration was called
TeardownCalled == \E p \in 1..Len(promises) : promises[p].k = "deleteConfiguration"

\* the future of deleteConfiguration is resolved, the three registries are
\* empty and no subscription of a queue is left on a working channel
TornDown ==
  /\ \E p \in 1..Len(promises) :
       promises[p].k = "deleteConfiguration" /\ IsFulfilled(State, p)
  /\ RegisteredExchanges(State) = {}
  /\ RegisteredQueues(State) = {}
  /\ RegisteredBindings(State) = {}
  /\ \A sub \in consumers : ~ChannelAlive(State, sub.ch)

\* C22: where the broker accepts the connect and acknowledges every
\* operation, a deleteConfiguration that was called eventually has its future
\* resolved, with the exchange, queue and binding registries empty and no
\* consumer subscribed.
C22_TeardownResolves == TeardownCalled ~> TornDown

\* C23: on every publish path a string is handed to the channel as its UTF-8
\* bytes and a Buffer as it is, both with the contentType the caller gave;
\* any other value is handed JSON-encoded, with contentType application/json
\* when the caller gave none and with the caller's contentType otherwise.
C23_SameNormalisation ==
  \A i \in 1..Len(sent) :
    LET r == sent[i] IN
    /\ r.given.t = "string" => r.content = Utf8(r.given.v) /\ r.contentType = r.option
    /\ r.given.t = "buffer" => r.content = r.given.v /\ r.contentType = r.option
    /\ r.given.t \notin {"string", "buffer"} =>
         /\ r.content = Utf8(JsonStringify(r.given))
         /\ r.contentType = IF r.option = "undefined" THEN "application/json"
                             ELSE r.option

\* C24: _rebuilding is set exactly while a connect attempt or a retry timer
\* of the chain of the current Connection.initialized is outstanding, which
\* is exactly while Connection.initialized is pending: the step that settles
\* the connect clears it, whatever the state of the re-declarations.
C24_GuardWhileConnecting ==
  /\ _rebuilding <=> (ChainTasks # {})
  /\ _rebuilding <=> IsPending(State, initialized)
  /\ \A t \in ChainTasks : t.a = initialized

\* C24 witness: a rebuild has connected and cleared the guard while the
\* re-declaration of a registered entity is still pending, after an earlier
\* connect of the same run was refused and retried
C24_Witness ==
  /\ ~_rebuilding /\ hist.rebuildAlls > 0 /\ IsFulfilled(State, initialized)
  /\ \E o \in Objs : Registered(State, o) /\ IsPending(State, entities[o].init)
  /\ \E p \in ConnPromises : promises[p].n > 1

\* the bind operations this step issues
BindsIssued == {t \in tasks' \ tasks : t.t = "bind"}

\* promise p is the `initialized` of a Binding that _rebuildAll re-initialized:
\* not the first one the Binding had
OfRebuild(p) ==
  \E p0 \in 1..(p - 1) : promises[p0].k = "binding" /\ promises[p0].n = promises[p].n

\* C25: the bind of a Binding that _rebuildAll re-initialized is issued on a
\* channel of the link the Connection has now, and the destination's
\* declaration on that link has been acknowledged.
C25_BindAfterRedeclaration ==
  [][ \A t \in BindsIssued :
        OfRebuild(t.b)
          => LET dst == bindingObjs[t.a].destination IN
             /\ channels'[t.c].link = _connection'
             /\ <<entities[dst].kind, dst, _connection'>> \in hist'.acked
    ]_vars

\* the subscriptions of Queue o, made by _initializeConsumer, on working
\* channels
ActiveSubscriptions(o) ==
  {sub \in consumers : sub.obj = o /\ sub.fn # "rpc" /\ ChannelAlive(State, sub.ch)}

\* C26: a Queue has at most one subscription on a working channel, and that
\* one has the consumer tag the Queue stores.
C26_OneSubscription ==
  \A o \in Objs :
    /\ Cardinality(ActiveSubscriptions(o)) <= 1
    /\ \A sub \in ActiveSubscriptions(o) : sub.tag = entities[o].ctag

\* a stopConsumer of Queue o has resolved and no startConsumer /
\* activateConsumer was called since
Stopped(o) ==
  /\ hist.calls # <<>> /\ hist.calls[Len(hist.calls)].api = "stopConsumer"
  /\ \E p \in 1..Len(promises) :
       promises[p].k = "stopConsumer" /\ promises[p].n = o /\ IsFulfilled(State, p)

\* C27: once a stopConsumer of a Queue has resolved, the Queue has no
\* subscription on a working channel, through which a delivery would reach
\* one of its consumer functions, until a consumer is started again.
C27_StoppedForGood ==
  \A o \in Objs : Stopped(o) => ActiveSubscriptions(o) = {}

\* C28: a step in which a link other than the one Connection._connection
\* holds goes down calls no _rebuildAll, starts no connect attempt and
\* re-initializes no Exchange or Queue.
C28_SupersededLinkIsInert ==
  [][ \A l \in linkUp \ linkUp' :
        l # _connection
          => /\ hist'.rebuildAlls = hist.rebuildAlls
             /\ ChainTasks' \subseteq ChainTasks
             /\ \A o \in Objs : entities'[o].init = entities[o].init
    ]_vars

\* C29: when a bind is issued, an assertExchange of its source exchange has
\* been acknowledged on the link of the channel the bind is issued on.
C29_BindAfterSourceDeclared ==
  [][ \A t \in BindsIssued :
        <<"exchange", bindingObjs[t.a].source, channels'[t.c].link>> \in hist'.acked
    ]_vars

ConnectSteps == ConnectRefused \/ RetryTimer \/ ConnectAccepted

LinkSteps == LinkDrop \/ LinkError

InitializeSteps ==
  \/ DeclareEntity
  \/ Reaction
  \/ CreateChannelOk
  \/ CreateChannelErr
  \/ AssertOk
  \/ AssertErr

TopologySteps == Consume \/ ConsumeOk \/ ConsumeErr \/ BindQueue \/ BindOk \/ BindErr

RemovalSteps ==
  RemoveEntity \/ UnbindOk \/ UnbindErr \/ DeleteOk \/ DeleteErr \/ CloseOk \/ CloseErr

Lim(ks, no, nb, nm, nd, nr, nx, nc) ==
  [kinds |-> ks, objs |-> no, binds |-> nb, msgs |-> nm, drops |-> nd, refusals |-> nr,
   removals |-> nx, closes |-> nc, calls |-> 0, deliveries |-> 0, rpcs |-> 0,
   replies |-> 0, unbinds |-> 0, serial |-> FALSE, teardowns |-> 0]

\* The whole model, under the constructor's default reconnect strategy
\* (line 52).
Next ==
  ConnectSteps \/ LinkSteps \/ ChannelClosed \/ InitializeSteps \/ TopologySteps \/ Publish \/ RemovalSteps

Spec ==
  /\ InitWith({0}, Lim({"exchange", "queue"}, MaxObjs, MaxBinds, MaxMsgs, MaxDrops,
               MaxRefusals, MaxRemovals, MaxCloses))
  /\ [][Next]_vars

\* Connecting under every reconnect strategy, with entities declared meanwhile.
NextRetry == ConnectSteps \/ InitializeSteps

SpecRetry ==
  /\ InitWith(0..MaxRetries, Lim({"exchange", "queue"}, MaxObjs, 0, 0, 0, MaxRefusals, 0, 0))
  /\ [][NextRetry]_vars

\* A topology of one exchange, one queue, a binding and a consumer, whose link
\* drops.
NextRebuild == ConnectSteps \/ LinkSteps \/ InitializeSteps \/ TopologySteps

SpecRebuild ==
  /\ InitWith({0}, Lim({"exchange", "queue"}, MaxObjs, MaxBinds, 0, MaxDrops, 0, 0, 0))
  /\ [][NextRebuild]_vars

\* A topology declared in one turn whose links fail with an "error" event,
\* where the broker accepts every connect, the event loop runs every queued
\* reaction and the library answers every pending operation.
Progress ==
  \/ ConnectAccepted
  \/ Reaction
  \/ CreateChannelOk
  \/ CreateChannelErr
  \/ AssertOk
  \/ AssertErr
  \/ ConsumeOk
  \/ ConsumeErr
  \/ BindOk
  \/ BindErr

NextRecover ==
  \/ LinkError
  \/ DeclareTopologyAndConsume
  \/ Progress

SpecRecover ==
  /\ InitWith({0}, Lim({"exchange", "queue"}, MaxObjs, MaxBinds, 0, MaxLinkErrors, 0, 0, 0))
  /\ [][NextRecover]_vars
  /\ WF_vars(Progress)

\* Publishing to one entity whose link drops.
NextPublish == ConnectSteps \/ LinkSteps \/ ChannelClosed \/ InitializeSteps \/ Publish

SpecPublish ==
  /\ InitWith({0}, Lim({"exchange"}, 1, 0, MaxMsgs, MaxDrops, 0, 0, MaxCloses))
  /\ [][NextPublish]_vars

\* One message, published to entities whose channels the broker closes one
\* after the other.
NextRetransmit ==
  \/ ConnectAccepted
  \/ ChannelClosed
  \/ DeclareEntity
  \/ Reaction
  \/ CreateChannelOk
  \/ AssertOk
  \/ AssertErr
  \/ Publish

SpecRetransmit ==
  /\ InitWith({0}, Lim({"exchange", "queue"}, MaxObjs, 0, 1, 0, 0, 0, MaxRetransmitCloses))
  /\ [][NextRetransmit]_vars

\* The consumer of one queue on a link that stays up: started, stopped and
\* delivered to.
NextConsumer ==
  \/ ConnectAccepted
  \/ DeclareEntity
  \/ Reaction
  \/ CreateChannelOk
  \/ AssertOk
  \/ StartConsumerCall
  \/ ActivateConsumerCall
  \/ StopConsumerCall
  \/ ConsumeOk
  \/ ConsumeErr
  \/ CancelOk
  \/ CancelErr
  \/ Deliver
  \/ AckMessage

SpecConsumer ==
  /\ InitWith({0}, [Lim({"queue"}, 1, 0, 0, 0, MaxRefusals, 0, 0)
                 EXCEPT !.calls = MaxConsumerCalls, !.deliveries = MaxDeliveries])
  /\ [][NextConsumer]_vars

\* A queue with a consumer beside an exchange, where the broker closes a
\* channel and a publish on it starts a rebuild while the first link stays up.
NextRedeliver ==
  \/ ConnectAccepted
  \/ ChannelClosed
  \/ DeclareEntity
  \/ Reaction
  \/ CreateChannelOk
  \/ AssertOk
  \/ Publish
  \/ StartConsumerCall
  \/ ActivateConsumerCall
  \/ ConsumeOk
  \/ Deliver
  \/ AckMessage

SpecRedeliver ==
  /\ InitWith({0}, [Lim({"exchange", "queue"}, MaxObjs, 0, 1, 0, 0, 0, MaxCloses)
                 EXCEPT !.calls = 1, !.deliveries = 1])
  /\ [][NextRedeliver]_vars

\* Binding a queue to an exchange and unbinding it, on a link that stays up.
NextUnbind ==
  \/ ConnectAccepted
  \/ InitializeSteps
  \/ BindQueue
  \/ BindOk
  \/ BindErr
  \/ UnbindQueue
  \/ UnbindOk
  \/ UnbindErr

SpecUnbind ==
  /\ InitWith({0}, [Lim({"exchange", "queue"}, MaxObjs, MaxBinds, 0, 0, MaxRefusals, 0, 0)
                 EXCEPT !.unbinds = MaxUnbinds])
  /\ [][NextUnbind]_vars

\* rpc calls on an exchange and a queue, one of whose channels the broker
\* may close.
NextRpc ==
  \/ ConnectAccepted
  \/ ChannelClosed
  \/ DeclareEntity
  \/ Reaction
  \/ CreateChannelOk
  \/ AssertOk
  \/ Publish
  \/ RpcCall
  \/ RpcConsumeOk
  \/ RpcConsumeErr
  \/ RpcReply
  \/ RpcCancelTaken

SpecRpc ==
  /\ InitWith({0}, [Lim({"exchange", "queue"}, MaxObjs, 0, 1, 0, 0, 0, MaxCloses)
                 EXCEPT !.rpcs = MaxRpcs, !.replies = MaxReplies])
  /\ [][NextRpc]_vars

\* A topology with a consumer that deleteConfiguration takes down, on a link
\* that stays up, where the broker acknowledges every operation it is sent,
\* the library answers the operations of a channel in order and the event
\* loop runs every queued reaction.
Acknowledged ==
  \/ ConnectAccepted
  \/ Reaction
  \/ CreateChannelOk
  \/ AssertOk
  \/ BindOk
  \/ ConsumeOk
  \/ UnbindOk
  \/ CancelOk
  \/ CancelErr
  \/ DeleteOk
  \/ CloseOk

NextTeardown ==
  \/ DeclareEntity
  \/ BindQueue
  \/ ActivateConsumerCall
  \/ DeleteConfigurationCall
  \/ Acknowledged

SpecTeardown ==
  /\ InitWith({0}, [Lim({"exchange", "queue"}, MaxObjs, MaxBinds, 0, 0, 0, 0, 0)
                 EXCEPT !.calls = 1, !.serial = TRUE, !.teardowns = MaxTeardowns])
  /\ [][NextTeardown]_vars
  /\ WF_vars(Acknowledged)

\* Contents and options passed to the three publish paths.
NextContent == ExchangePublishContent \/ QueuePublishContent \/ MessageSendContent

SpecContent ==
  /\ InitWith({0}, Lim({}, 0, 0, 0, 0, 0, 0, 0))
  /\ [][NextContent]_vars

\* Connecting and rebuilding under every reconnect strategy, with one
\* exchange published to.
NextGuard == ConnectSteps \/ LinkSteps \/ InitializeSteps \/ Publish

SpecGuard ==
  /\ InitWith(0..MaxRetries, Lim({"exchange"}, 1, 0, 1, MaxDrops, 0, 0, 0))
  /\ [][NextGuard]_vars

\* A queue bound to an exchange, where the broker closes a channel and a
\* publish on it starts a rebuild while the first link stays up.
NextRebind ==
  \/ ConnectAccepted
  \/ ChannelClosed
  \/ DeclareEntity
  \/ Reaction
  \/ CreateChannelOk
  \/ AssertOk
  \/ BindQueue
  \/ BindOk
  \/ Publish

SpecRebind ==
  /\ InitWith({0}, Lim({"exchange", "queue"}, MaxObjs, MaxBinds, 1, 0, 0, 0, MaxCloses))
  /\ [][NextRebind]_vars

\* A queue whose consumer is started and stopped beside an exchange, where
\* the broker closes a channel and a publish on it starts a rebuild while the
\* first link stays up.
NextStop ==
  \/ ConnectAccepted
  \/ ChannelClosed
  \/ DeclareEntity
  \/ Reaction
  \/ CreateChannelOk
  \/ AssertOk
  \/ Publish
  \/ StartConsumerCall
  \/ StopConsumerCall
  \/ ConsumeOk
  \/ CancelOk

SpecStop ==
  /\ InitWith({0}, [Lim({"exchange", "queue"}, MaxObjs, 0, 1, 0, 0, 0, MaxCloses)
                 EXCEPT !.calls = 2])
  /\ [][NextStop]_vars

\* Declaring, binding, deleting and closing entities on a link that stays up.
NextLifecycle == ConnectSteps \/ InitializeSteps \/ BindQueue \/ BindOk \/ BindErr \/ RemovalSteps

SpecLifecycle ==
  /\ InitWith({0}, Lim({"exchange", "queue"}, MaxLifecycleObjs, MaxBinds, 0, 0,
               MaxRefusals, MaxRemovals, 0))
  /\ [][NextLifecycle]_vars
====
